---- MODULE Spec2Model ----
(***************************************************************************)
(* Model of pyapputil's layered configuration (src/pyapputil/appconfig.py):*)
(* the module-level start-up sequence                                      *)
(*     import_defaults -> import_user_config -> import_environment         *)
(* and the calls an application makes afterwards (set_user_config_file,    *)
(* add_default, import_environment); of threadutil.py: the global pool     *)
(* (GlobalPool, ShutdownGlobalPool), ThreadPool.Post / Wait and LockFile;  *)
(* of appframework.py: PythonApp.Run with the exception hook and the       *)
(* SIGINT handler; and of logutil.py: GetLogger.  Each part has its own    *)
(* specification (Spec, SpecDefaults, SpecPool, SpecWait, SpecLock,        *)
(* SpecRun, SpecLog).                                                      *)
(*                                                                         *)
(* Strings are modelled as sequences of tokens, so that concatenation      *)
(* (prefix + NAME, os.path.join) is sequence concatenation and a path is   *)
(* absolute exactly when its first token is "/".  A configuration value is *)
(* a pair <<type, tokens>>: the YAML / Python type and the text.           *)
(***************************************************************************)
EXTENDS Integers, Sequences, FiniteSets, TLC

\* ---------------------------------------------------------------- bounds
MaxDepth == 3            \* deepest application root below "/"
MaxCalls == 2            \* calls the application makes after start-up
NumThreads == 2          \* threads that call GlobalPool / ShutdownGlobalPool
MaxItems == 3            \* work items posted to one ThreadPool
NumLockFiles == 3        \* LockFile objects constructed
MaxLogCalls == 3         \* calls of GetLogger
MaxWaits == 2            \* Wait calls on that pool
MaxPoolCalls == 2        \* calls each of these threads makes

\* ------------------------------------------------------ program constants
DEFAULTS_FILENAME == <<"appdefaults.py">>
PREFIX_VAR_NAME == "ENV_CONFIG_PREFIX"
PREFIX_DEFAULT == <<"PYAPP_">>
USER_CONFIG_VAR_NAME == "USER_CONFIG"
USER_CONFIG_DEFAULT == <<"userconfig.yml">>

\* ------------------------------------------------------------ value model
StrVal(toks) == <<"str", toks>>
BoolVal(tok) == <<"bool", <<tok>>>>
IntVal(tok) == <<"int", <<tok>>>>
NoneVal == <<"none", <<>>>>
\* Python truthiness of an argument that is None or a string
Truthy(v) == v[1] # "none" /\ v[2] # <<>>

\* str.upper() on the key names the model uses
Upper(k) ==
  CASE k = "some_value" -> "SOME_VALUE"
    [] k = "other" -> "OTHER"
    [] k = "newkey" -> "NEWKEY"
    [] k = "_private" -> "_PRIVATE"
    [] k = "__name__" -> "__NAME__"
    [] k = "__builtins__" -> "__BUILTINS__"
    [] OTHER -> k

\* str.startswith("_") on the key names the model uses
StartsWithUnderscore(k) == k \in {"_", "_private", "__name__", "__builtins__"}

\* iterating a Python str yields its characters
CharsOfUserConfigVarName == {"U", "S", "E", "R", "_", "C", "O", "N", "F", "I", "G"}

\* the empty dict
EmptyDict == [k \in {} |-> NoneVal]
\* dict.update(other)
Update(d, other) ==
  [k \in (DOMAIN d) \cup (DOMAIN other) |-> IF k \in DOMAIN other THEN other[k] ELSE d[k]]
\* d[key] = value
SetItem(d, key, value) == [k \in (DOMAIN d) \cup {key} |-> IF k = key THEN value ELSE d[k]]
\* del d[key] / d.pop(key, None)
DelItem(d, key) == [k \in (DOMAIN d) \ {key} |-> d[k]]
\* d.get(key, default)
Get(d, key, default) == IF key \in DOMAIN d THEN d[key] ELSE default

\* ------------------------------------------------------------- path model
DirNames == <<"srv", "app", "bin", "opt">>
Root == <<"/">>
CWD == <<"/", "home">>
isabs(p) == Len(p) > 0 /\ p[1] = "/"
\* os.path.join(a, b): an absolute b discards a
join(a, b) == IF isabs(b) THEN b ELSE a \o b
\* os.path.normpath on an absolute path: ".." removes the component before
\* it and is dropped at the root
RECURSIVE normpath(_, _)
normpath(done, rest) ==
  IF rest = <<>> THEN done
  ELSE IF Head(rest) = ".."
       THEN normpath(IF Len(done) > 1 THEN SubSeq(done, 1, Len(done) - 1) ELSE done, Tail(rest))
       ELSE normpath(Append(done, Head(rest)), Tail(rest))
\* os.path.abspath
abspath(p) == IF isabs(p) THEN normpath(Root, Tail(p)) ELSE normpath(Root, Tail(CWD) \o p)
\* "/.." repeated n times
DotDots(n) == [i \in 1..n |-> ".."]

\* ------------------------------------------------------------------ state
VARIABLES
  APP_PATH,           \* the application root directory (appconfig.py:128-133)
  defaults_dirs,      \* file system: the directories that hold an appdefaults.py
  defaults_source,    \* file system: the top-level names that file defines
  user_files,         \* file system: YAML files, absolute path -> parsed content
  environ,            \* os.environ: variable name -> value (token sequences)
  appconfig,          \* the ConfigValues mapping, key -> value
  modifier,           \* import_defaults: number of "/.." appended so far
  defaults_filepath,  \* import_defaults: the path tested by the search loop
  pc,                 \* position in the module start-up sequence
  ncalls,             \* calls made by the application after start-up
  env_reapplied,      \* the application has called import_environment itself
  last                \* the last call: name, argument, exception raised and
                      \* the mapping as it was before the call

\* threadutil.py, the global pool
VARIABLES
  _globalPool,        \* module global: 0 for None, else the number of a pool
  _globalPoolLock,    \* module global lock: 0 when free, else the holding thread
  pools,              \* every ThreadPool constructed so far: number -> status
  tpc,                \* each thread's position in GlobalPool / ShutdownGlobalPool
  tcalls,             \* calls each thread has completed
  returned            \* the values the GlobalPool() calls have returned

\* threadutil.py, one ThreadPool and the thread that posts to it and waits
VARIABLES
  results,            \* ThreadPool.results: per posted item "pending" or how it ended
  wait_pc,            \* the caller: "idle" or inside WaitForThreads
  wait_index,         \* WaitForThreads: position of the for loop
  allgood,            \* WaitForThreads: the local of that name
  got,                \* what item.Get() gave for each item of the current Wait
  nwaits,             \* Wait calls completed
  last_wait           \* the last completed Wait: what it returned, what it got and
                      \* the number of items posted before it

\* threadutil.py, LockFile objects and the flock table of the kernel
VARIABLES
  lockfiles,          \* each LockFile object: not constructed, open on a name, closed
  flock,              \* per lock file: the open file holding its exclusive lock, or 0
  holding,            \* the objects whose last Lock() succeeded and that have not unlocked
  in_with,            \* the objects inside a with-block
  released,           \* per lock file: the object that unlocked it last, or 0
  last_lock           \* the last Lock() call: object, exception, holder at the call

\* appframework.py, one PythonApp in the main thread of the main process
VARIABLES
  run_pc,             \* "idle" before Run, then its position, "exited" at the end
  run_args,           \* the arguments Run was given
  main_args,          \* the keyword arguments Run passes to the main function
  main_calls,         \* calls of the main function
  result,             \* what the main function did: the value returned or raised
  uncaught,           \* the exception on its way to sys.excepthook
  exit_code,          \* <<>> while the process runs, then <<its exit status>>
  exit_path           \* the statement that ended the process

\* logutil: the loggers of the logging module that GetLogger sets up
VARIABLES
  handlers,           \* logger name -> mylog.handlers, a list of handlers
  built,              \* logger name -> the list left by the first call that added a handler
  log_calls,          \* calls of GetLogger so far
  last_log            \* the last call of GetLogger

cfgvars == <<APP_PATH, defaults_dirs, defaults_source, user_files, environ,
             appconfig, modifier, defaults_filepath, pc, ncalls, env_reapplied, last>>
poolvars == <<_globalPool, _globalPoolLock, pools, tpc, tcalls, returned>>
\* the state of the modules that no method of ConfigValues touches
waitvars == <<results, wait_pc, wait_index, allgood, got, nwaits, last_wait>>
lockvars == <<lockfiles, flock, holding, in_with, released, last_lock>>
runvars == <<run_pc, run_args, main_args, main_calls, result, uncaught, exit_code, exit_path>>
logvars == <<handlers, built, log_calls, last_log>>
elsewhere == <<poolvars, waitvars, lockvars, runvars, logvars>>
\* what the actions of one part leave alone
notpool == <<cfgvars, waitvars, lockvars, runvars, logvars>>
notwait == <<cfgvars, poolvars, lockvars, runvars, logvars>>
notlock == <<cfgvars, poolvars, waitvars, runvars, logvars>>
notlog == <<cfgvars, poolvars, waitvars, lockvars, runvars>>
vars == <<cfgvars, elsewhere>>
world == <<APP_PATH, defaults_dirs, defaults_source, user_files, environ, elsewhere>>

\* os.path.exists for a file path
exists(p) ==
  abspath(p) \in (DOMAIN user_files) \cup {join(d, DEFAULTS_FILENAME) : d \in defaults_dirs}

\* -------------------------------------------------- inputs of the model
\* directories on the chain from "/" down to depth n
DirAt(n) == Root \o SubSeq(DirNames, 1, n)
Ancestors(dir) == {DirAt(n) : n \in 0..(Len(dir) - 1)}

\* the names every runpy.run_path result holds besides the file's own
RunpyNames == ("__name__" :> StrVal(<<"<run_path>">>)) @@ ("__builtins__" :> StrVal(<<"<builtins>">>))

\* what evaluating appdefaults.py gives: the names it defines, or an error
Source(names) == [ok |-> TRUE, names |-> names]
\* a file that binds some_value and then raises: run_path returns nothing
BrokenSource == [ok |-> FALSE, names |-> ("some_value" :> IntVal("1"))]
DefaultsSources ==
  { Source(("some_value" :> IntVal("1")) @@ ("C" :> IntVal("2")) @@ ("_private" :> IntVal("0"))),
    Source(("some_value" :> IntVal("1")) @@ (PREFIX_VAR_NAME :> StrVal(<<"MYAPP_">>))
       @@ (USER_CONFIG_VAR_NAME :> StrVal(<<"my.yml">>))),
    BrokenSource }
\* the interpreters the package installs on (setup.py states no python_requires;
\* the modules import the 2/3 compatibility layer past.builtins)
PythonVersions == {2, 3}

\* what yaml.load(userfile) gives (line 99, the one-argument call of PyYAML
\* before 6.0): a mapping, None for an empty document, or a parse error
YamlMap(m) == [kind |-> "map", map |-> m]
YamlEmpty == [kind |-> "empty", map |-> EmptyDict]
YamlInvalid == [kind |-> "invalid", map |-> EmptyDict]
FileSome == YamlMap(("some_value" :> IntVal("123")))
FileSelf == YamlMap(("some_value" :> IntVal("123")) @@ (USER_CONFIG_VAR_NAME :> StrVal(<<"evil.yml">>)))
FileOther == YamlMap(("C" :> IntVal("5")) @@ ("other" :> IntVal("7")))
FilePrefix == YamlMap((PREFIX_VAR_NAME :> StrVal(<<"MYAPP_">>)))

Tmp(name) == <<"/", "tmp", name>>
\* files that exist in every run
FixedFiles ==
  (Tmp("other.yml") :> FileOther) @@ (Tmp("self.yml") :> FileSelf)
    @@ (Tmp("empty.yml") :> YamlEmpty) @@ (Tmp("bad.yml") :> YamlInvalid)
\* at most one more file, under the default names, in the current directory or
\* in the application root
LocalFiles(app) ==
  {EmptyDict} \cup
  { (join(dir, name) :> content) :
      dir \in {CWD, app}, name \in {USER_CONFIG_DEFAULT, <<"my.yml">>},
      content \in {FileSome, FileSelf, FileOther, FilePrefix} }

Environments ==
  { EmptyDict,
    (<<"PYAPP_", "SOME_VALUE">> :> <<"456">>),
    (<<"PYAPP_", "SOME_VALUE">> :> <<"456">>) @@ (<<"MYAPP_", "SOME_VALUE">> :> <<"789">>)
       @@ (<<"PYAPP_", "NEWKEY">> :> <<"n">>),
    (<<"PYAPP_", "USER_CONFIG">> :> Tmp("other.yml")) @@ (<<"PYAPP_", "ENV_CONFIG_PREFIX">> :> <<"ALT_">>),
    (<<"PYAPP_", "USER_CONFIG">> :> <<"my.yml">>) @@ (<<"PYAPP_", "C">> :> <<"c">>),
    (<<"MYAPP_", "USER_CONFIG">> :> Tmp("other.yml")) }

\* the arguments the application passes: absolute paths of files that exist
\* or not, a relative path, and no path
ReloadPaths ==
  { StrVal(Tmp("other.yml")), StrVal(Tmp("self.yml")), StrVal(Tmp("empty.yml")),
    StrVal(Tmp("bad.yml")), StrVal(Tmp("missing.yml")), StrVal(<<"my.yml">>), NoneVal }
AddDefaultNames == {"some_value", "newkey"}
AddDefaultValues == {NoneVal, IntVal("9")}

NoCall == [op |-> "none", arg |-> NoneVal, raised |-> "none", before |-> EmptyDict, value |-> NoneVal]

\* the parent directory
dirname(dir) == IF Len(dir) > 1 THEN SubSeq(dir, 1, Len(dir) - 1) ELSE dir

\* threads of the application that use the global pool
Threads == 1..NumThreads
\* threadutil.py lines 26-27: no pool yet, the lock free, no thread in a call
PoolIdle ==
  /\ _globalPool = 0
  /\ _globalPoolLock = 0
  /\ pools = <<>>
  /\ tpc = [t \in Threads |-> "idle"]
  /\ tcalls = [t \in Threads |-> 0]
  /\ returned = {}
\* ThreadPool.__init__, line 125: no item posted, no Wait called
NoWait == [returned |-> "none", got |-> <<>>, posted |-> 0]
WaitIdle ==
  /\ results = <<>>
  /\ wait_pc = "idle"
  /\ wait_index = 0
  /\ allgood = TRUE
  /\ got = <<>>
  /\ nwaits = 0
  /\ last_wait = NoWait
\* no LockFile object constructed, no lock file locked
LockObjects == 1..NumLockFiles
LockNames == {"a", "b"}
NoLock == [obj |-> 0, raised |-> "none", holder |-> 0]
LockIdle ==
  /\ lockfiles = [o \in LockObjects |-> [state |-> "none", name |-> "none"]]
  /\ flock = [n \in LockNames |-> 0]
  /\ holding = {}
  /\ in_with = {}
  /\ released = [n \in LockNames |-> 0]
  /\ last_lock = NoLock
\* PythonApp.__init__ has returned, Run has not been called
NoResult == [kind |-> "none", type |-> "none", n |-> 0]
RunIdle ==
  /\ run_pc = "idle"
  /\ run_args = EmptyDict
  /\ main_args = EmptyDict
  /\ main_calls = 0
  /\ result = NoResult
  /\ uncaught = "none"
  /\ exit_code = <<>>
  /\ exit_path = "none"
\* no logger has been set up
LoggerNames == {"myapp", "worker"}
NoLogCall == [name |-> "none", logConfig |-> <<>>, before |-> <<>>, raised |-> "none"]
LogIdle ==
  /\ handlers = [n \in LoggerNames |-> <<>>]
  /\ built = [n \in LoggerNames |-> <<>>]
  /\ log_calls = 0
  /\ last_log = NoLogCall
ElsewhereIdle == PoolIdle /\ WaitIdle /\ LockIdle /\ RunIdle /\ LogIdle

\* the state when the module is imported: an application root MaxDepth
\* directories deep, with no appdefaults.py or with one in the root or above it
Init ==
  /\ APP_PATH = DirAt(MaxDepth)
  /\ defaults_dirs \in {{}, {APP_PATH}, {dirname(APP_PATH)}}
  /\ defaults_source \in DefaultsSources
  /\ \E local \in LocalFiles(APP_PATH) : user_files = local @@ FixedFiles
  /\ environ \in Environments
  /\ appconfig = EmptyDict
  /\ modifier = 0
  /\ defaults_filepath = DEFAULTS_FILENAME
  /\ pc = "search"
  /\ ncalls = 0
  /\ env_reapplied = FALSE
  /\ last = NoCall
  /\ ElsewhereIdle

\* ------------------------------------------------------- import_defaults
\* line 52: defaults_filepath = join(file_path, defaults_filepath)
NextDefaultsFilepath(file_path, previous) == join(file_path, previous)

\* lines 50-57, one iteration of the search loop
SearchDefaults ==
  /\ pc = "search"
  /\ LET file_path == abspath(APP_PATH \o DotDots(modifier))
         candidate == NextDefaultsFilepath(file_path, defaults_filepath)
     IN /\ defaults_filepath' = candidate
        /\ IF exists(candidate) \/ file_path = Root
           THEN pc' = "load" /\ modifier' = modifier
           ELSE pc' = "search" /\ modifier' = modifier + 1
  /\ UNCHANGED <<world, appconfig, ncalls, env_reapplied, last>>

\* runpy.run_path: the file's names on top of the names of every module
run_path(source) == Update(RunpyNames, source.names)
\* lines 63-65 where keys() is a list (Python 2): every "_" key is deleted
StripPrivate(d) == [k \in {x \in DOMAIN d : ~StartsWithUnderscore(x)} |-> d[k]]
\* a variant with the two fallback values exchanged
EnsureCritical_swapped(d) ==
  LET d1 == IF PREFIX_VAR_NAME \notin DOMAIN d
            THEN SetItem(d, PREFIX_VAR_NAME, StrVal(USER_CONFIG_DEFAULT)) ELSE d
  IN IF USER_CONFIG_VAR_NAME \notin DOMAIN d1
     THEN SetItem(d1, USER_CONFIG_VAR_NAME, StrVal(PREFIX_DEFAULT)) ELSE d1

\* lines 68-71: make sure critical values are set
EnsureCritical(d) ==
  LET d1 == IF PREFIX_VAR_NAME \notin DOMAIN d
            THEN SetItem(d, PREFIX_VAR_NAME, StrVal(PREFIX_DEFAULT)) ELSE d
  IN IF USER_CONFIG_VAR_NAME \notin DOMAIN d1
     THEN SetItem(d1, USER_CONFIG_VAR_NAME, StrVal(USER_CONFIG_DEFAULT)) ELSE d1

Call(op, arg, raised) ==
  [op |-> op, arg |-> arg, raised |-> raised, before |-> appconfig, value |-> NoneVal]

\* a variant that keeps what the file bound before it raised
UpdateFromSource_partial(self, source) ==
  IF source.ok THEN Update(self, run_path(source)) ELSE Update(self, source.names)

\* line 62, self.update(run_path(...)): nothing is updated when run_path raises
UpdateFromSource(self, source) ==
  IF source.ok THEN Update(self, run_path(source)) ELSE self

\* lines 59-71, after the search loop
LoadDefaults ==
  /\ pc = "load"
  /\ IF exists(defaults_filepath)
     THEN IF ~defaults_source.ok
          THEN \* run_path raises after self.clear()
               /\ appconfig' = UpdateFromSource(EmptyDict, defaults_source)
               /\ pc' = "failed"
               /\ last' = Call("import_defaults", NoneVal, "SyntaxError")
          ELSE \E py \in PythonVersions :
               IF py = 2
               THEN /\ appconfig' = EnsureCritical(StripPrivate(UpdateFromSource(EmptyDict, defaults_source)))
                    /\ pc' = "user"
                    /\ last' = Call("import_defaults", NoneVal, "none")
               ELSE \* keys() is a view of the dict (Python 3): the iteration step
                    \* after the first del raises RuntimeError
                    \E k \in {x \in DOMAIN run_path(defaults_source) : StartsWithUnderscore(x)} :
                      /\ appconfig' = DelItem(UpdateFromSource(EmptyDict, defaults_source), k)
                      /\ pc' = "failed"
                      /\ last' = Call("import_defaults", NoneVal, "RuntimeError")
     ELSE /\ appconfig' = EnsureCritical(EmptyDict)
          /\ pc' = "user"
          /\ last' = Call("import_defaults", NoneVal, "none")
  /\ UNCHANGED <<world, modifier, defaults_filepath, ncalls, env_reapplied>>

\* ---------------------------------------------------- import_user_config
Result(self, raised) == [self |-> self, raised |-> raised]

\* line 95: blacklisted_vars = (USER_CONFIG_VAR_NAME) is a str, not a tuple;
\* line 100 iterates its characters
blacklisted_vars == CharsOfUserConfigVarName

\* lines 100-101: pop every blacklisted name from the parsed content
RECURSIVE PopAll(_, _)
PopAll(d, names) ==
  IF names = {} THEN d
  ELSE LET n == CHOOSE x \in names : TRUE IN PopAll(DelItem(d, n), names \ {n})

\* a variant that opens the file without testing that it exists
_load_missing_raises(self, user_config_file) ==
  LET self1 == SetItem(self, USER_CONFIG_VAR_NAME, user_config_file)
  IN IF ~exists(user_config_file[2]) THEN Result(self1, "IOError")
     ELSE LET content == user_files[abspath(user_config_file[2])]
              user_config == PopAll(content.map, blacklisted_vars)
          IN IF content.kind = "invalid" THEN Result(self1, "YAMLError")
             ELSE IF content.kind = "empty" THEN Result(self1, "AttributeError")
             ELSE IF user_config # EmptyDict
                  THEN Result(Update(self1, user_config), "none")
                  ELSE Result(self1, "none")

\* ConfigValues._load, lines 92-103
_load(self, user_config_file) ==
  LET self1 == SetItem(self, USER_CONFIG_VAR_NAME, user_config_file)
      content == user_files[abspath(user_config_file[2])]
  IN IF ~exists(user_config_file[2]) THEN Result(self1, "none")
     ELSE IF content.kind = "invalid" THEN Result(self1, "YAMLError")
     ELSE IF content.kind = "empty" THEN Result(self1, "AttributeError")
     ELSE LET user_config == PopAll(content.map, blacklisted_vars)
          IN IF user_config # EmptyDict
             THEN Result(Update(self1, user_config), "none")
             ELSE Result(self1, "none")

\* lines 76-78: the path import_user_config loads
config_file(self, user_config_file) ==
  LET given == IF Truthy(user_config_file) THEN user_config_file
               ELSE Get(self, USER_CONFIG_VAR_NAME, StrVal(USER_CONFIG_DEFAULT))
  IN IF ~exists(given[2]) /\ ~isabs(given[2])
     THEN StrVal(join(APP_PATH, given[2])) ELSE given

\* ConfigValues.import_user_config, lines 73-80
import_user_config(self, user_config_file) ==
  _load(SetItem(self, USER_CONFIG_VAR_NAME, config_file(self, user_config_file)),
        config_file(self, user_config_file))

\* a variant that never consults the environment
user_config_filename_ignores_env(self) == self[USER_CONFIG_VAR_NAME]

\* line 137: the file name start-up passes to import_user_config
user_config_filename(self) ==
  LET name == self[PREFIX_VAR_NAME][2] \o <<Upper(USER_CONFIG_VAR_NAME)>>
  IN IF name \in DOMAIN environ THEN StrVal(environ[name]) ELSE self[USER_CONFIG_VAR_NAME]

\* lines 137-138 of the start-up sequence
StartupUserConfig ==
  /\ pc = "user"
  /\ LET arg == user_config_filename(appconfig)
         r == import_user_config(appconfig, arg)
     IN /\ appconfig' = r.self
        /\ pc' = IF r.raised = "none" THEN "environment" ELSE "failed"
        /\ last' = Call("import_user_config", arg, r.raised)
  /\ UNCHANGED <<world, modifier, defaults_filepath, ncalls, env_reapplied>>

\* ---------------------------------------------------- import_environment
\* line 88: the environment variable consulted for a key
env_var_name(self, varname) == self[PREFIX_VAR_NAME][2] \o <<Upper(varname)>>

\* a variant that overlays the prefix key like every other key
import_environment_no_skip(self) ==
  [k \in DOMAIN self |->
     IF (self[PREFIX_VAR_NAME][2] \o <<Upper(k)>>) \in DOMAIN environ
     THEN StrVal(environ[self[PREFIX_VAR_NAME][2] \o <<Upper(k)>>]) ELSE self[k]]

\* a variant that always looks under the fallback prefix
import_environment_fallback_prefix(self) ==
  [k \in DOMAIN self |->
     IF k # PREFIX_VAR_NAME /\ (PREFIX_DEFAULT \o <<Upper(k)>>) \in DOMAIN environ
     THEN StrVal(environ[PREFIX_DEFAULT \o <<Upper(k)>>]) ELSE self[k]]

\* ConfigValues.import_environment, lines 82-90
import_environment(self) ==
  [k \in DOMAIN self |->
     IF k # PREFIX_VAR_NAME /\ env_var_name(self, k) \in DOMAIN environ
     THEN StrVal(environ[env_var_name(self, k)]) ELSE self[k]]

\* line 139 of the start-up sequence
StartupEnvironment ==
  /\ pc = "environment"
  /\ appconfig' = import_environment(appconfig)
  /\ pc' = "ready"
  /\ last' = Call("import_environment", NoneVal, "none")
  /\ UNCHANGED <<world, modifier, defaults_filepath, ncalls, env_reapplied>>

\* ------------------------------------------- calls made after start-up
\* set_user_config_file, lines 117-124
set_user_config_file(self, config_file_path) == import_user_config(self, config_file_path)

SetUserConfigFile(path) ==
  /\ pc = "ready" /\ ncalls < MaxCalls
  /\ LET r == set_user_config_file(appconfig, path)
     IN /\ appconfig' = r.self
        /\ last' = Call("set_user_config_file", path, r.raised)
  /\ ncalls' = ncalls + 1
  /\ UNCHANGED <<world, modifier, defaults_filepath, pc, env_reapplied>>

\* a variant that sets the key whether it is present or not
add_default_always(self, var_name, default_value) == SetItem(self, var_name, default_value)

\* add_default, lines 105-115
add_default(self, var_name, default_value) ==
  IF var_name \notin DOMAIN self THEN SetItem(self, var_name, default_value) ELSE self

AddDefault(name, value) ==
  /\ pc = "ready" /\ ncalls < MaxCalls
  /\ appconfig' = add_default(appconfig, name, value)
  /\ last' = [Call("add_default", StrVal(<<name>>), "none") EXCEPT !.value = value]
  /\ ncalls' = ncalls + 1
  /\ UNCHANGED <<world, modifier, defaults_filepath, pc, env_reapplied>>

\* the application re-applies the environment overlay itself
ImportEnvironment ==
  /\ pc = "ready" /\ ncalls < MaxCalls
  /\ appconfig' = import_environment(appconfig)
  /\ last' = Call("import_environment", NoneVal, "none")
  /\ ncalls' = ncalls + 1
  /\ env_reapplied' = TRUE
  /\ UNCHANGED <<world, modifier, defaults_filepath, pc>>

Next ==
  \/ SearchDefaults
  \/ LoadDefaults
  \/ StartupUserConfig
  \/ StartupEnvironment
  \/ \E path \in ReloadPaths : SetUserConfigFile(path)
  \/ \E name \in AddDefaultNames, value \in AddDefaultValues : AddDefault(name, value)
  \/ ImportEnvironment

Spec == Init /\ [][Next]_vars

\* import_defaults alone, over every application root down to MaxDepth and
\* every placement of appdefaults.py files on the way up to "/"
InitDefaults ==
  /\ \E d \in 0..MaxDepth : APP_PATH = DirAt(d)
  /\ defaults_dirs \in SUBSET (Ancestors(APP_PATH) \cup {APP_PATH})
  /\ defaults_source \in DefaultsSources
  /\ user_files = FixedFiles
  /\ environ = EmptyDict
  /\ appconfig = EmptyDict
  /\ modifier = 0
  /\ defaults_filepath = DEFAULTS_FILENAME
  /\ pc = "search"
  /\ ncalls = 0
  /\ env_reapplied = FALSE
  /\ last = NoCall
  /\ ElsewhereIdle

NextDefaults == SearchDefaults \/ LoadDefaults

SpecDefaults == InitDefaults /\ [][NextDefaults]_vars

\* =========================================================== threadutil.py
\* the mapping once appconfig.py has been imported where no appdefaults.py
\* and no configuration variable exists (lines 135-139)
StartedDefaults == EnsureCritical(EmptyDict)
StartedUserConfig == import_user_config(StartedDefaults, user_config_filename(StartedDefaults)).self
StartedConfig == import_environment(StartedUserConfig)
\* threadutil.py line 24, run when the module is imported
UseMultiprocessingDefault == add_default(StartedConfig, "use_multiprocessing", BoolVal("False"))

\* the configuration state every application thread starts from: appconfig
\* and threadutil imported
ConfigStarted ==
  /\ APP_PATH = DirAt(MaxDepth)
  /\ defaults_dirs = {}
  /\ defaults_source = BrokenSource
  /\ user_files = FixedFiles
  /\ environ = EmptyDict
  /\ appconfig = UseMultiprocessingDefault
  /\ modifier = MaxDepth
  /\ defaults_filepath = join(APP_PATH, DEFAULTS_FILENAME)
  /\ pc = "ready"
  /\ ncalls = 0
  /\ env_reapplied = FALSE
  /\ last = [op |-> "add_default", arg |-> StrVal(<<"use_multiprocessing">>), raised |-> "none",
             before |-> StartedConfig, value |-> BoolVal("False")]

\* ---------------------------------------- GlobalPool / ShutdownGlobalPool
\* a variant that enters the with-block without taking the lock
CallGlobalPool_unlocked(t) ==
  /\ tpc[t] = "idle" /\ tcalls[t] < MaxPoolCalls
  /\ tpc' = [tpc EXCEPT ![t] = "gp_locked"]
  /\ UNCHANGED <<notpool, _globalPool, _globalPoolLock, pools, tcalls, returned>>

\* line 33, entering "with _globalPoolLock": blocks until the lock is free
CallGlobalPool(t) ==
  /\ tpc[t] = "idle" /\ tcalls[t] < MaxPoolCalls
  /\ _globalPoolLock = 0
  /\ _globalPoolLock' = t
  /\ tpc' = [tpc EXCEPT ![t] = "gp_locked"]
  /\ UNCHANGED <<notpool, _globalPool, pools, tcalls, returned>>

\* line 34: if not _globalPool
TestGlobalPool(t) ==
  /\ tpc[t] = "gp_locked"
  /\ tpc' = [tpc EXCEPT ![t] = IF _globalPool = 0 THEN "gp_construct" ELSE "gp_release"]
  /\ UNCHANGED <<notpool, _globalPool, _globalPoolLock, pools, tcalls, returned>>

\* line 35: _globalPool = ThreadPool()
ConstructGlobalPool(t) ==
  /\ tpc[t] = "gp_construct"
  /\ pools' = Append(pools, "running")
  /\ _globalPool' = Len(pools) + 1
  /\ tpc' = [tpc EXCEPT ![t] = "gp_release"]
  /\ UNCHANGED <<notpool, _globalPoolLock, tcalls, returned>>

\* leaving the with-block of line 33
ReleaseGlobalPoolLock(t) ==
  /\ tpc[t] = "gp_release"
  /\ _globalPoolLock' = 0
  /\ tpc' = [tpc EXCEPT ![t] = "gp_return"]
  /\ UNCHANGED <<notpool, _globalPool, pools, tcalls, returned>>

\* line 36: return _globalPool, read after the lock is released
ReturnGlobalPool(t) ==
  /\ tpc[t] = "gp_return"
  /\ returned' = returned \cup {_globalPool}
  /\ tcalls' = [tcalls EXCEPT ![t] = @ + 1]
  /\ tpc' = [tpc EXCEPT ![t] = "idle"]
  /\ UNCHANGED <<notpool, _globalPool, _globalPoolLock, pools>>

\* ThreadPool.Shutdown, lines 153-158, on the pool a name refers to
Shutdown(all, pool) == [all EXCEPT ![pool] = "terminated"]

\* line 40, entering "with _globalPoolLock" in ShutdownGlobalPool
CallShutdownGlobalPool(t) ==
  /\ tpc[t] = "idle" /\ tcalls[t] < MaxPoolCalls
  /\ _globalPoolLock = 0
  /\ _globalPoolLock' = t
  /\ tpc' = [tpc EXCEPT ![t] = "sd_locked"]
  /\ UNCHANGED <<notpool, _globalPool, pools, tcalls, returned>>

\* lines 41-42: if _globalPool: _globalPool.Shutdown()
ShutdownGlobalPool(all, current) == IF current # 0 THEN Shutdown(all, current) ELSE all

\* lines 41-42 and leaving the with-block
FinishShutdownGlobalPool(t) ==
  /\ tpc[t] = "sd_locked"
  /\ pools' = ShutdownGlobalPool(pools, _globalPool)
  /\ _globalPoolLock' = 0
  /\ tcalls' = [tcalls EXCEPT ![t] = @ + 1]
  /\ tpc' = [tpc EXCEPT ![t] = "idle"]
  /\ UNCHANGED <<notpool, _globalPool, returned>>

\* threads of one process calling GlobalPool and ShutdownGlobalPool
InitPool == ConfigStarted /\ ElsewhereIdle

NextPool ==
  \/ \E t \in Threads : CallGlobalPool(t)
  \/ \E t \in Threads : TestGlobalPool(t)
  \/ \E t \in Threads : ConstructGlobalPool(t)
  \/ \E t \in Threads : ReleaseGlobalPoolLock(t)
  \/ \E t \in Threads : ReturnGlobalPool(t)
  \/ \E t \in Threads : CallShutdownGlobalPool(t)
  \/ \E t \in Threads : FinishShutdownGlobalPool(t)

SpecPool == InitPool /\ [][NextPool]_vars

\* ------------------------------------- ThreadPool.Post / ThreadPool.Wait
\* how a work item ends: the value it returns or the exception it raises
ItemOutcomes == {"True", "False", "None", "ApplicationError", "ValueError"}

\* ThreadPool.Post, lines 127-142: the caller posts one more item
Post ==
  /\ wait_pc = "idle" /\ Len(results) < MaxItems
  /\ results' = Append(results, "pending")
  /\ UNCHANGED <<notwait, wait_pc, wait_index, allgood, got, nwaits, last_wait>>

\* a worker of the pool finishes item i
FinishItem(i, outcome) ==
  /\ i \in 1..Len(results) /\ results[i] = "pending"
  /\ results' = [results EXCEPT ![i] = outcome]
  /\ UNCHANGED <<notwait, wait_pc, wait_index, allgood, got, nwaits, last_wait>>

\* ThreadPool.Wait, line 151, and WaitForThreads up to the loop, lines 170-172
StartWait ==
  /\ wait_pc = "idle" /\ nwaits < MaxWaits
  /\ wait_pc' = "iterating"
  /\ wait_index' = 1
  /\ allgood' = TRUE
  /\ got' = <<>>
  /\ UNCHANGED <<notwait, results, nwaits, last_wait>>

\* a variant that takes every result but True for a failure
AllGoodAfter_truthy(good, outcome) == IF outcome = "True" THEN good ELSE FALSE

\* lines 174-180: "result is False" and "except ApplicationError" clear allgood
AllGoodAfter(good, outcome) ==
  IF outcome \in {"False", "ApplicationError", "TimeoutExpiredError"} THEN FALSE ELSE good

\* the exceptions line 178 catches
IsApplicationError(outcome) == outcome \in {"ApplicationError", "TimeoutExpiredError"}
Raises(outcome) == outcome \in {"ApplicationError", "TimeoutExpiredError", "ValueError"}

\* one iteration of the loop, lines 172-180, for what item.Get() gives: an
\* exception that is no ApplicationError leaves WaitForThreads
WaitStep(outcome) ==
  IF Raises(outcome) /\ ~IsApplicationError(outcome)
  THEN /\ wait_pc' = "idle"
       /\ nwaits' = nwaits + 1
       /\ last_wait' = [returned |-> "raised", got |-> Append(got, outcome), posted |-> Len(results)]
       /\ UNCHANGED <<wait_index, allgood, got>>
  ELSE /\ allgood' = AllGoodAfter(allgood, outcome)
       /\ wait_index' = wait_index + 1
       /\ got' = Append(got, outcome)
       /\ UNCHANGED <<wait_pc, nwaits, last_wait>>

\* AsyncResult.Get, lines 80-83, on an item that has finished
GetItem ==
  /\ wait_pc = "iterating" /\ wait_index <= Len(results)
  /\ results[wait_index] # "pending"
  /\ WaitStep(results[wait_index])
  /\ UNCHANGED <<notwait, results>>

\* AsyncResult.Get, lines 81-85, on an item still running when the 0xFFFF
\* seconds of line 81 are over
GetTimeout ==
  /\ wait_pc = "iterating" /\ wait_index <= Len(results)
  /\ results[wait_index] = "pending"
  /\ WaitStep("TimeoutExpiredError")
  /\ UNCHANGED <<notwait, results>>

\* line 182: return allgood
ReturnWait ==
  /\ wait_pc = "iterating" /\ wait_index > Len(results)
  /\ wait_pc' = "idle"
  /\ nwaits' = nwaits + 1
  /\ last_wait' = [returned |-> IF allgood THEN "True" ELSE "False", got |-> got,
                   posted |-> Len(results)]
  /\ UNCHANGED <<notwait, results, wait_index, allgood, got>>

\* one thread posting to a ThreadPool and waiting, the workers finishing items
InitWait == ConfigStarted /\ ElsewhereIdle

NextWait ==
  \/ Post
  \/ \E i \in 1..MaxItems, outcome \in ItemOutcomes : FinishItem(i, outcome)
  \/ StartWait
  \/ GetItem
  \/ GetTimeout
  \/ ReturnWait

SpecWait == InitWait /\ [][NextWait]_vars

\* ---------------------------------------------------------------- LockFile
\* a variant that grants the lock whoever holds it
flock_EX_NB_granted(table, name, o) == [table |-> [table EXCEPT ![name] = o], raised |-> "none"]

\* fcntl.flock(fd, LOCK_EX | LOCK_NB), line 231: the lock of a file belongs to
\* one open file; a request on another open file fails at once
flock_EX_NB(table, name, o) ==
  IF table[name] \in {0, o}
  THEN [table |-> [table EXCEPT ![name] = o], raised |-> "none"]
  ELSE [table |-> table, raised |-> "IOError"]

\* fcntl.flock(fd, LOCK_UN), line 235: releases the lock this open file holds
flock_UN(table, name, o) == IF table[name] = o THEN [table EXCEPT ![name] = 0] ELSE table

IsOpen(o) == lockfiles[o].state = "open"

\* LockFile.__init__, lines 214-216: every object opens the file of its name
NewLockFile(o, name) ==
  /\ lockfiles[o].state = "none"
  /\ lockfiles' = [lockfiles EXCEPT ![o] = [state |-> "open", name |-> name]]
  /\ UNCHANGED <<notlock, flock, holding, in_with, released, last_lock>>

\* what Lock() does to the lock state, lines 229-231
DoLock(o) ==
  LET name == lockfiles[o].name
      r == flock_EX_NB(flock, name, o)
  IN /\ flock' = r.table
     /\ holding' = IF r.raised = "none" THEN holding \cup {o} ELSE holding
     /\ last_lock' = [obj |-> o, raised |-> r.raised, holder |-> flock[name]]

\* what Unlock() does to the lock state, lines 233-235
DoUnlock(o) ==
  LET name == lockfiles[o].name
  IN /\ flock' = flock_UN(flock, name, o)
     /\ holding' = holding \ {o}
     /\ released' = IF flock[name] = o THEN [released EXCEPT ![name] = o] ELSE released

\* LockFile.Lock
Lock(o) ==
  /\ IsOpen(o) /\ o \notin in_with
  /\ DoLock(o)
  /\ UNCHANGED <<notlock, lockfiles, in_with, released>>

\* LockFile.Unlock
Unlock(o) ==
  /\ IsOpen(o) /\ o \notin in_with
  /\ DoUnlock(o)
  /\ UNCHANGED <<notlock, lockfiles, in_with, last_lock>>

\* LockFile.__enter__, lines 218-219: the body is entered if Lock() returns
Enter(o) ==
  /\ IsOpen(o) /\ o \notin in_with
  /\ DoLock(o)
  /\ in_with' = IF flock_EX_NB(flock, lockfiles[o].name, o).raised = "none"
                THEN in_with \cup {o} ELSE in_with
  /\ UNCHANGED <<notlock, lockfiles, released>>

\* LockFile.__exit__, lines 221-222
Exit(o) ==
  /\ o \in in_with
  /\ DoUnlock(o)
  /\ in_with' = in_with \ {o}
  /\ UNCHANGED <<notlock, lockfiles, last_lock>>

\* LockFile.__del__, lines 224-227, when the object is collected
Del(o) ==
  /\ IsOpen(o) /\ o \notin in_with
  /\ DoUnlock(o)
  /\ lockfiles' = [lockfiles EXCEPT ![o].state = "closed"]
  /\ UNCHANGED <<notlock, in_with, last_lock>>

\* LockFile objects of any threads and processes on one machine
InitLock == ConfigStarted /\ ElsewhereIdle

NextLock ==
  \/ \E o \in LockObjects, name \in LockNames : NewLockFile(o, name)
  \/ \E o \in LockObjects : Lock(o)
  \/ \E o \in LockObjects : Unlock(o)
  \/ \E o \in LockObjects : Enter(o)
  \/ \E o \in LockObjects : Exit(o)
  \/ \E o \in LockObjects : Del(o)

SpecLock == InitLock /\ [][NextLock]_vars

\* ========================================================= appframework.py
\* the arguments Run is given: a dict of keyword arguments or an argparse
\* namespace, with or without the keys debug and user_config
AppArgs == ("name" :> StrVal(<<"x">>))
UserArgsSet ==
  { AppArgs,
    ("debug" :> IntVal("1")) @@ AppArgs,
    ("user_config" :> NoneVal) @@ ("debug" :> IntVal("0")) @@ AppArgs,
    ("user_config" :> StrVal(<<>>)) @@ AppArgs,
    ("user_config" :> StrVal(Tmp("other.yml"))) @@ ("debug" :> IntVal("3")) @@ AppArgs,
    ("user_config" :> StrVal(Tmp("bad.yml"))) @@ AppArgs,
    ("user_config" :> StrVal(Tmp("empty.yml"))) @@ AppArgs,
    ("user_config" :> StrVal(Tmp("missing.yml"))) }

\* what the main function does: return a value of some type (n is the int,
\* the bool as 0/1, the length of a str) or raise an exception (n is the code
\* of a SystemExit)
Return(type, n) == [kind |-> "return", type |-> type, n |-> n]
Raise(type, n) == [kind |-> "raise", type |-> type, n |-> n]
MainOutcomes ==
  {Return("int", n) : n \in {-1, 0, 1, 2, 256}}
    \cup {Return("bool", 0), Return("bool", 1), Return("NoneType", 0),
          Return("str", 0), Return("str", 2)}
    \cup {Raise("InvalidArgumentError", 0), Raise("KeyboardInterrupt", 0),
          Raise("ApplicationError", 0), Raise("SystemExit", 0), Raise("SystemExit", 3)}

\* the exit status of a process that ends in sys.exit(n): the low 8 bits
ExitStatus(n) == n % 256
\* bool(result)
ResultTruthy(r) == IF r.type = "NoneType" THEN FALSE ELSE r.n # 0

\* a variant that tests isinstance(result, int), which a bool passes
ExitCodeOfResult_isinstance(r) ==
  IF r.type \in {"int", "bool"} THEN ExitStatus(r.n)
  ELSE IF ResultTruthy(r) THEN 0 ELSE 1

\* Run, lines 189-195: the exit code for the value main returned
ExitCodeOfResult(r) ==
  IF r.type = "int" THEN ExitStatus(r.n)
  ELSE IF ResultTruthy(r) THEN 0 ELSE 1

\* the thread Run is called in
MainThread == 1

AfterReload_ignores_raise(raised) == "main"

\* Run, lines 173-178: an exception of set_user_config_file leaves Run before
\* the try block, so the main function is reached only when it returned
AfterReload(raised) == IF raised = "none" THEN "main" ELSE "hook"

\* Run, lines 149-175: up to the call of the main function
RunStart(user_args) ==
  /\ pc = "ready" /\ run_pc = "idle"
  /\ run_args' = user_args
  /\ main_args' = DelItem(DelItem(user_args, "debug"), "user_config")
  /\ LET user_config_file == Get(user_args, "user_config", NoneVal)
         r == set_user_config_file(appconfig, user_config_file)
     IN IF Truthy(user_config_file)
        THEN /\ appconfig' = r.self
             /\ last' = Call("set_user_config_file", user_config_file, r.raised)
             /\ run_pc' = AfterReload(r.raised)
             /\ uncaught' = r.raised
        ELSE /\ run_pc' = "main"
             /\ UNCHANGED <<appconfig, last, uncaught>>
  /\ UNCHANGED <<APP_PATH, defaults_dirs, defaults_source, user_files, environ, modifier,
                 defaults_filepath, pc, ncalls, env_reapplied>>
  /\ UNCHANGED <<poolvars, waitvars, lockvars, logvars, main_calls, result, exit_code, exit_path>>

\* Run, line 178: self.main(**user_args) is entered
CallMain ==
  /\ run_pc = "main"
  /\ run_pc' = "in_main"
  /\ main_calls' = main_calls + 1
  /\ UNCHANGED <<cfgvars, poolvars, waitvars, lockvars, logvars, run_args, main_args, result, uncaught,
                 exit_code, exit_path>>

\* the main function calls GlobalPool() and ShutdownGlobalPool() of
\* threadutil, step by step as any thread does
MainUsesPool ==
  /\ run_pc = "in_main"
  /\ \/ CallGlobalPool(MainThread)
     \/ TestGlobalPool(MainThread)
     \/ ConstructGlobalPool(MainThread)
     \/ ReleaseGlobalPoolLock(MainThread)
     \/ ReturnGlobalPool(MainThread)
     \/ CallShutdownGlobalPool(MainThread)
     \/ FinishShutdownGlobalPool(MainThread)

\* Run, lines 177-187: the main function returns or raises; the except
\* clauses call Abort, any other exception leaves Run
MainEnds(outcome) ==
  /\ run_pc = "in_main" /\ tpc[MainThread] = "idle"
  /\ result' = outcome
  /\ IF outcome.kind = "return"
     THEN /\ run_pc' = "returned"
          /\ UNCHANGED <<uncaught, exit_code, exit_path>>
     ELSE IF outcome.type \in {"InvalidArgumentError", "KeyboardInterrupt"}
     THEN /\ run_pc' = "aborting"
          /\ exit_path' = "Abort"
          /\ UNCHANGED <<uncaught, exit_code>>
     ELSE IF outcome.type = "SystemExit"
     THEN /\ run_pc' = "exited"
          /\ exit_code' = <<ExitStatus(outcome.n)>>
          /\ exit_path' = "SystemExit"
          /\ UNCHANGED uncaught
     ELSE /\ run_pc' = "hook"
          /\ uncaught' = outcome.type
          /\ UNCHANGED <<exit_code, exit_path>>
  /\ UNCHANGED <<cfgvars, poolvars, waitvars, lockvars, logvars, run_args, main_args, main_calls>>

\* Run, lines 189-195: sys.exit with the code of the returned value
ExitWithResult ==
  /\ run_pc = "returned"
  /\ run_pc' = "exited"
  /\ exit_code' = <<ExitCodeOfResult(result)>>
  /\ exit_path' = "result"
  /\ UNCHANGED <<cfgvars, poolvars, waitvars, lockvars, logvars, run_args, main_args, main_calls, result,
                 uncaught>>

\* UnhandledException, lines 93-102, called by sys.excepthook in the main
\* thread of the main process: Abort
UnhandledException ==
  /\ run_pc = "hook"
  /\ run_pc' = "aborting"
  /\ exit_path' = "UnhandledException"
  /\ UNCHANGED <<cfgvars, poolvars, waitvars, lockvars, logvars, run_args, main_args, main_calls, result,
                 uncaught, exit_code>>

\* Signal, lines 137-139: the SIGINT handler runs in the main thread, on top
\* of whatever that thread was doing, and calls Abort
Signal ==
  /\ pc = "ready"
  /\ run_pc \in {"idle", "main", "in_main", "returned", "hook", "aborting", "abort_locked"}
  /\ exit_path # "Signal"
  /\ run_pc' = "aborting"
  /\ exit_path' = "Signal"
  /\ UNCHANGED <<cfgvars, poolvars, waitvars, lockvars, logvars, run_args, main_args, main_calls, result,
                 uncaught, exit_code>>

\* Abort, line 143, and ShutdownGlobalPool, line 40: "with _globalPoolLock"
\* blocks until the lock is free
AbortAcquire ==
  /\ run_pc = "aborting"
  /\ _globalPoolLock = 0
  /\ _globalPoolLock' = MainThread
  /\ run_pc' = "abort_locked"
  /\ UNCHANGED <<cfgvars, waitvars, lockvars, logvars, _globalPool, pools, tpc, tcalls, returned,
                 run_args, main_args, main_calls, result, uncaught, exit_code, exit_path>>

\* ShutdownGlobalPool, lines 41-42, and Abort, line 144: sys.exit(1)
AbortShutdown ==
  /\ run_pc = "abort_locked"
  /\ pools' = ShutdownGlobalPool(pools, _globalPool)
  /\ _globalPoolLock' = 0
  /\ run_pc' = "exited"
  /\ exit_code' = <<ExitStatus(1)>>
  /\ UNCHANGED <<cfgvars, waitvars, lockvars, logvars, _globalPool, tpc, tcalls, returned,
                 run_args, main_args, main_calls, result, uncaught, exit_path>>

\* one application: PythonApp(main).Run(args) in the main thread
InitRun == ConfigStarted /\ ElsewhereIdle

NextRun ==
  \/ \E user_args \in UserArgsSet : RunStart(user_args)
  \/ CallMain
  \/ MainUsesPool
  \/ \E outcome \in MainOutcomes : MainEnds(outcome)
  \/ ExitWithResult
  \/ UnhandledException
  \/ Signal
  \/ AbortAcquire
  \/ AbortShutdown

SpecRun == InitRun /\ [][NextRun]_vars

\* ------------------------------------------------------- logutil.GetLogger
\* logging.INFO, logging.DEBUG and CustomLogLevels.DEBUG2 (line 21)
INFO == 20
DEBUG == 10
DEBUG2 == 9

\* GetDefaultConfig, lines 351-366; prefix is the set of FormatOptions bits
GetDefaultConfig ==
  [enableConsole |-> TRUE, consoleColor |-> TRUE, consoleLevel |-> INFO,
   prefix |-> {"TIME", "LEVEL"}, enableSyslog |-> TRUE, syslogFacility |-> 1,
   enableFile |-> FALSE, logFile |-> <<>>]

\* the logConfig arguments of the callers: None or {} and partial dicts
LogConfigs ==
  { <<>>,
    [enableSyslog |-> FALSE, consoleLevel |-> DEBUG],
    [enableSyslog |-> FALSE, enableConsole |-> FALSE],
    [enableFile |-> TRUE, consoleColor |-> FALSE, syslogFacility |-> 3, prefix |-> {"LEVEL"}],
    [enableFile |-> TRUE, logFile |-> <<"x.log">>, enableSyslog |-> FALSE,
     enableConsole |-> FALSE] }

\* lines 380-386: the defaults when logConfig is None or empty, otherwise
\* logConfig with the missing keys filled in from the defaults
CompleteConfig(logConfig) ==
  IF DOMAIN logConfig = {}
  THEN GetDefaultConfig
  ELSE [key \in DOMAIN GetDefaultConfig |->
          IF key \in DOMAIN logConfig THEN logConfig[key] ELSE GetDefaultConfig[key]]

\* what a call finds outside the program: the platform, whether the event
\* log, the unix socket of syslog and the log file can be opened, and the
\* last key of vars(CustomLogLevels), which the loop of line 393 leaves in
\* the variable "name"
LogEnvironments ==
  { env \in [system : {"linux", "darwin", "windows"}, eventlog : BOOLEAN,
             unixsocket : BOOLEAN, file : BOOLEAN, lastkey : {"__weakref__", "DEBUG2"}] :
      /\ env.system = "windows" => ~env.unixsocket
      /\ env.system # "windows" => ~env.eventlog
      /\ env.system = "darwin" => env.file /\ env.lastkey = "__weakref__" }

Handler(name, level, target, option) ==
  [name |-> name, level |-> level, target |-> target, option |-> option]

\* lines 454-485: the event log handler on Windows, the syslog handler elsewhere
SyslogHandlers(logConfig, env) ==
  IF ~logConfig.enableSyslog THEN <<>>
  ELSE IF env.system = "windows"
  THEN IF env.eventlog THEN <<Handler("eventlog", DEBUG, <<env.lastkey>>, <<>>)>> ELSE <<>>
  ELSE LET syslogAddress == IF env.system = "darwin" THEN <<"/var/run/syslog">>
                            ELSE <<"/dev/log">>
           address == IF env.unixsocket THEN syslogAddress ELSE <<"localhost", "514">>
       IN <<Handler("syslog", DEBUG, address, <<logConfig.syslogFacility>>)>>

\* lines 488-495: the file handler; the default file name is made from
\* "name", which is no longer the argument after the loop of line 393
FileHandlers(logConfig, env) ==
  IF ~logConfig.enableFile THEN <<>>
  ELSE LET logFile == IF logConfig.logFile # <<>> THEN logConfig.logFile
                      ELSE <<env.lastkey, ".log">>
       IN <<Handler("file", DEBUG2, logFile, <<>>)>>

\* lines 499-503: the format string of the console handler
ConsoleFormat(prefix) ==
  (IF "TIME" \in prefix THEN <<"%(asctime)s: ">> ELSE <<>>)
    \o (IF "LEVEL" \in prefix THEN <<"%(levelname)-7s ">> ELSE <<>>)
    \o <<"%(message)s">>

\* lines 498-512: the console handler
ConsoleHandlers(logConfig) ==
  IF ~logConfig.enableConsole THEN <<>>
  ELSE <<Handler("console", logConfig.consoleLevel, <<"stdout">>,
                 <<logConfig.consoleColor>> \o ConsoleFormat(logConfig.prefix))>>

AlreadyInitialized_never(mylog) == FALSE

\* lines 394-395: if len(mylog.handlers) > 0: return mylog
AlreadyInitialized(mylog) == Len(mylog) > 0

\* GetLogger, lines 368-514, on the handler list of the logger of that name:
\* the list afterwards and the exception raised, if any
SetUpLogger(mylog, logConfig, env) ==
  IF AlreadyInitialized(mylog) THEN [handlers |-> mylog, raised |-> "none"]
  ELSE LET withSyslog == mylog \o SyslogHandlers(logConfig, env)
       IN IF logConfig.enableFile /\ ~env.file
          THEN [handlers |-> withSyslog, raised |-> "IOError"]
          ELSE [handlers |-> withSyslog \o FileHandlers(logConfig, env)
                               \o ConsoleHandlers(logConfig),
                raised |-> "none"]

GetLogger(name, logConfig, env) ==
  /\ log_calls < MaxLogCalls
  /\ LET r == SetUpLogger(handlers[name], CompleteConfig(logConfig), env)
     IN /\ handlers' = [handlers EXCEPT ![name] = r.handlers]
        /\ built' = IF built[name] = <<>> THEN [built EXCEPT ![name] = r.handlers] ELSE built
        /\ last_log' = [name |-> name, logConfig |-> logConfig, before |-> handlers[name],
                        raised |-> r.raised]
  /\ log_calls' = log_calls + 1
  /\ UNCHANGED notlog

\* callers of GetLogger, one call after the other
InitLog == ConfigStarted /\ ElsewhereIdle

NextLog == \E name \in LoggerNames, logConfig \in LogConfigs, env \in LogEnvironments :
             GetLogger(name, logConfig, env)

SpecLog == InitLog /\ [][NextLog]_vars

\* ================================================================ claims
\* every key but the prefix key whose environment variable exists holds that
\* variable's value
EnvWins(m) ==
  \A k \in (DOMAIN m) \ {PREFIX_VAR_NAME} :
    env_var_name(m, k) \in DOMAIN environ => m[k] = StrVal(environ[env_var_name(m, k)])
\* the last call left every key it found with the value it had
KeepsExisting == \A k \in DOMAIN last.before : k \in DOMAIN appconfig /\ appconfig[k] = last.before[k]
StartupDone == pc = "ready" /\ ncalls = 0
UserConfigCall == last.op \in {"import_user_config", "set_user_config_file"}
\* the path the last user-config call resolved, and the file found there
LastConfigFile == config_file(last.before, last.arg)
LastFileExists == exists(LastConfigFile[2])
LastFile == user_files[abspath(LastConfigFile[2])]
LastFileLoaded == UserConfigCall /\ last.raised = "none" /\ LastFileExists /\ LastFile.kind = "map"

SpecifiedSourceNames ==
  IF defaults_dirs # {} /\ defaults_source.ok
  THEN [k \in {x \in DOMAIN defaults_source.names : ~StartsWithUnderscore(x)} |-> defaults_source.names[k]]
  ELSE EmptyDict
SpecifiedDefaults ==
  LET withPrefix == IF PREFIX_VAR_NAME \in DOMAIN SpecifiedSourceNames THEN SpecifiedSourceNames
                    ELSE (PREFIX_VAR_NAME :> StrVal(PREFIX_DEFAULT)) @@ SpecifiedSourceNames
  IN IF USER_CONFIG_VAR_NAME \in DOMAIN withPrefix THEN withPrefix
     ELSE (USER_CONFIG_VAR_NAME :> StrVal(USER_CONFIG_DEFAULT)) @@ withPrefix
\* the content of the user file start-up is specified to load, if it exists
SpecifiedUserFile == config_file(SpecifiedDefaults, user_config_filename(SpecifiedDefaults))
SpecifiedUserMap ==
  IF exists(SpecifiedUserFile[2]) /\ user_files[abspath(SpecifiedUserFile[2])].kind = "map"
  THEN user_files[abspath(SpecifiedUserFile[2])].map ELSE EmptyDict
SpecifiedValue(k) ==
  IF env_var_name(appconfig, k) \in DOMAIN environ THEN StrVal(environ[env_var_name(appconfig, k)])
  ELSE IF k \in DOMAIN SpecifiedUserMap THEN SpecifiedUserMap[k]
  ELSE SpecifiedSourceNames[k]

\* C2: at the end of start-up every key of the defaults source (but the two
\* reserved keys) holds the environment variable's string if it exists, else
\* the user file's value if the file has the key, else the defaults value.
C2_ResolvedValues ==
  StartupDone =>
    \A k \in (DOMAIN SpecifiedSourceNames) \ {PREFIX_VAR_NAME, USER_CONFIG_VAR_NAME} :
      k \in DOMAIN appconfig /\ appconfig[k] = SpecifiedValue(k)

\* C3: after the overlay loaded a file that has a USER_CONFIG key, the mapping's
\* USER_CONFIG is the path the overlay resolved, not the file's value.
C3_SelfReferenceStripped ==
  (LastFileLoaded /\ USER_CONFIG_VAR_NAME \in DOMAIN LastFile.map)
    => appconfig[USER_CONFIG_VAR_NAME] = LastConfigFile

\* C4: after the overlay loaded a file, every key of the file but USER_CONFIG
\* holds the file's value and every other key but USER_CONFIG its old value.
C4_OverlayMerge ==
  LastFileLoaded =>
    /\ \A k \in (DOMAIN LastFile.map) \ {USER_CONFIG_VAR_NAME} :
         k \in DOMAIN appconfig /\ appconfig[k] = LastFile.map[k]
    /\ \A k \in (DOMAIN last.before) \ ((DOMAIN LastFile.map) \cup {USER_CONFIG_VAR_NAME}) :
         k \in DOMAIN appconfig /\ appconfig[k] = last.before[k]

\* the appdefaults.py nearest to the application root on the way up to "/"
NearestDefaultsDir == CHOOSE d \in defaults_dirs : \A e \in defaults_dirs : Len(e) <= Len(d)

\* C5: when an appdefaults.py exists in the application root or above it, the
\* search ends with the path of the nearest one, which is then evaluated.
C5_NearestDefaultsFound ==
  (pc = "load" /\ defaults_dirs # {})
    => defaults_filepath = join(NearestDefaultsDir, DEFAULTS_FILENAME)

C7_PrivateNamesStripped ==
  (last.op = "import_defaults" /\ exists(defaults_filepath) /\ defaults_source.ok)
    => /\ last.raised = "none"
       /\ \A k \in DOMAIN defaults_source.names :
            ~StartsWithUnderscore(k) => k \in DOMAIN appconfig /\ appconfig[k] = defaults_source.names[k]
       /\ \A k \in DOMAIN appconfig : ~StartsWithUnderscore(k)

\* the environment variable the overlay reads for key k of the mapping before
EnvNameBefore(k) == last.before[PREFIX_VAR_NAME][2] \o <<Upper(k)>>

\* C8: import_environment keeps the set of keys and ENV_CONFIG_PREFIX; a key
\* whose variable <prefix><KEY> exists takes the variable's value and every
\* other key keeps its value.
C8_EnvironmentOverlayFrame ==
  last.op = "import_environment" =>
    /\ DOMAIN appconfig = DOMAIN last.before
    /\ appconfig[PREFIX_VAR_NAME] = last.before[PREFIX_VAR_NAME]
    /\ \A k \in (DOMAIN last.before) \ {PREFIX_VAR_NAME} :
         IF EnvNameBefore(k) \in DOMAIN environ
         THEN appconfig[k] = StrVal(environ[EnvNameBefore(k)])
         ELSE appconfig[k] = last.before[k]

\* the overlay changed a key, left another alone, and a prefixed variable that
\* names no key (PYAPP_NEWKEY) added nothing
C8_Witness ==
  /\ last.op = "import_environment"
  /\ last.before[PREFIX_VAR_NAME] = StrVal(<<"PYAPP_">>)
  /\ <<"PYAPP_", "NEWKEY">> \in DOMAIN environ
  /\ "newkey" \notin DOMAIN appconfig
  /\ "some_value" \in DOMAIN appconfig
  /\ appconfig["some_value"] # last.before["some_value"]
  /\ appconfig[USER_CONFIG_VAR_NAME] = last.before[USER_CONFIG_VAR_NAME]

\* C9: set_user_config_file removes no key, gives the keys of the new file the
\* file's values and leaves every other key but USER_CONFIG as it was.
C9_ReloadFrame ==
  last.op = "set_user_config_file" =>
    /\ DOMAIN last.before \subseteq DOMAIN appconfig
    /\ LastFileLoaded =>
         \A k \in (DOMAIN LastFile.map) \ {USER_CONFIG_VAR_NAME} :
           k \in DOMAIN appconfig /\ appconfig[k] = LastFile.map[k]
    /\ \A k \in (DOMAIN last.before) \ {USER_CONFIG_VAR_NAME} :
         (LastFileLoaded => k \notin DOMAIN LastFile.map) => appconfig[k] = last.before[k]

\* the path the claim names: the argument if given, else the current
\* USER_CONFIG; joined to APP_PATH when relative and absent from the current
\* directory
ClaimedPath ==
  LET given == IF last.arg # NoneVal THEN last.arg ELSE last.before[USER_CONFIG_VAR_NAME]
  IN IF given[2][1] = "/" \/ (CWD \o given[2]) \in DOMAIN user_files
     THEN given ELSE StrVal(APP_PATH \o given[2])

\* C10: after import_user_config, USER_CONFIG holds the path resolved from the
\* argument (or the current USER_CONFIG), the current directory and APP_PATH.
C10_ResolvedPathRecorded ==
  UserConfigCall => appconfig[USER_CONFIG_VAR_NAME] = ClaimedPath

\* the name start-up is specified to load: the value of the variable
\* <ENV_CONFIG_PREFIX>USER_CONFIG if set, else the USER_CONFIG of the defaults
StartupEnvName == last.before[PREFIX_VAR_NAME][2] \o <<"USER_CONFIG">>
StartupFileName ==
  IF StartupEnvName \in DOMAIN environ THEN StrVal(environ[StartupEnvName])
  ELSE last.before[USER_CONFIG_VAR_NAME]
\* the file found under a name: in the current directory, else in APP_PATH
FileNamed(name) ==
  LET path == IF name[2][1] = "/" THEN name[2]
              ELSE IF (CWD \o name[2]) \in DOMAIN user_files THEN CWD \o name[2]
              ELSE APP_PATH \o name[2]
  IN IF path \in DOMAIN user_files THEN user_files[path] ELSE YamlMap(EmptyDict)

\* C11: the user-file stage of start-up is given the value of the variable
\* <ENV_CONFIG_PREFIX>USER_CONFIG when it is set and the defaults' USER_CONFIG
\* otherwise, and every key the stage adds or changes (but USER_CONFIG) has
\* the value the file of that name gives it.
C11_EnvNamesUserFile ==
  last.op = "import_user_config" =>
    /\ last.arg = StartupFileName
    /\ \A k \in (DOMAIN appconfig) \ {USER_CONFIG_VAR_NAME} :
         (k \notin DOMAIN last.before \/ appconfig[k] # last.before[k])
           => k \in DOMAIN FileNamed(StartupFileName).map
              /\ appconfig[k] = FileNamed(StartupFileName).map[k]

\* the variable names /tmp/other.yml while a userconfig.yml with some_value
\* exists: the key of other.yml is loaded and some_value keeps its default
C11_Witness ==
  /\ last.op = "import_user_config"
  /\ StartupEnvName \in DOMAIN environ
  /\ environ[StartupEnvName] = Tmp("other.yml")
  /\ (CWD \o USER_CONFIG_DEFAULT) \in DOMAIN user_files
  /\ "some_value" \in DOMAIN user_files[CWD \o USER_CONFIG_DEFAULT].map
  /\ "other" \in DOMAIN appconfig /\ appconfig["other"] = IntVal("7")
  /\ appconfig["some_value"] = IntVal("1")

\* C12: when the path a user-config call resolves names no file, the call
\* raises nothing, USER_CONFIG is that path and every other key is as before.
C12_MissingFileNoOp ==
  (UserConfigCall /\ ClaimedPath \notin {StrVal(f) : f \in DOMAIN user_files}
     /\ (CWD \o ClaimedPath[2]) \notin DOMAIN user_files) =>
    /\ last.raised = "none"
    /\ DOMAIN appconfig = (DOMAIN last.before) \cup {USER_CONFIG_VAR_NAME}
    /\ appconfig[USER_CONFIG_VAR_NAME] = ClaimedPath
    /\ \A k \in (DOMAIN last.before) \ {USER_CONFIG_VAR_NAME} : appconfig[k] = last.before[k]

\* a reload with a path that names no file, after start-up loaded a file
C12_Witness ==
  /\ last.op = "set_user_config_file"
  /\ last.arg = StrVal(Tmp("missing.yml"))
  /\ appconfig[USER_CONFIG_VAR_NAME] = StrVal(Tmp("missing.yml"))
  /\ "other" \in DOMAIN appconfig
  /\ last.before[USER_CONFIG_VAR_NAME] # appconfig[USER_CONFIG_VAR_NAME]

\* the key the last add_default call named
AddDefaultName == last.arg[2][1]

\* C13: add_default leaves the mapping as it was when the key is present,
\* whatever its value, and otherwise adds the key with the given value and
\* changes no other key.
C13_AddDefaultOnlyWhenAbsent ==
  last.op = "add_default" =>
    IF AddDefaultName \in DOMAIN last.before
    THEN appconfig = last.before
    ELSE /\ DOMAIN appconfig = (DOMAIN last.before) \cup {AddDefaultName}
         /\ appconfig[AddDefaultName] = last.value
         /\ \A k \in DOMAIN last.before : appconfig[k] = last.before[k]

\* a second add_default for a key the first one set to None: None stays
C13_Witness ==
  /\ last.op = "add_default" /\ AddDefaultName = "newkey"
  /\ "newkey" \in DOMAIN last.before /\ last.before["newkey"] = NoneVal
  /\ last.value = IntVal("9")
  /\ appconfig["newkey"] = NoneVal

\* C14: when evaluating the defaults source raises, import_defaults raises
\* too, start-up goes no further and the mapping holds no key of the source.
C14_NoPartialDefaults ==
  (last.op = "import_defaults" /\ exists(defaults_filepath) /\ ~defaults_source.ok) =>
    /\ last.raised # "none"
    /\ pc = "failed"
    /\ \A k \in DOMAIN defaults_source.names : k \notin DOMAIN appconfig
    /\ appconfig = EmptyDict

\* the source raised after it bound some_value
C14_Witness ==
  /\ last.op = "import_defaults" /\ last.raised = "SyntaxError"
  /\ "some_value" \in DOMAIN defaults_source.names
  /\ appconfig = EmptyDict

\* the directory the search loop examined last
SearchedDir == abspath(APP_PATH \o DotDots(modifier))
OnlyFallbacks ==
  (PREFIX_VAR_NAME :> StrVal(<<"PYAPP_">>)) @@ (USER_CONFIG_VAR_NAME :> StrVal(<<"userconfig.yml">>))

\* C15: the search loop makes at most one iteration per directory from the
\* application root up to "/"; it ends in the nearest directory that holds an
\* appdefaults.py, or in "/" when no directory does, and then import_defaults
\* leaves only the two fallback keys.
C15_SearchTerminates ==
  /\ modifier < Len(APP_PATH)
  /\ pc # "search" =>
       IF defaults_dirs # {} THEN SearchedDir = NearestDefaultsDir ELSE SearchedDir = Root
  /\ (last.op = "import_defaults" /\ defaults_dirs = {}) => appconfig = OnlyFallbacks

\* C20: at the end of start-up USER_CONFIG is the resolved path of the file
\* the user-file stage tried to load: the name of the environment variable
\* <ENV_CONFIG_PREFIX>USER_CONFIG or of the defaults, joined to APP_PATH when
\* relative and absent from the current directory.
C20_StartupUserConfigResolved ==
  StartupDone =>
    LET prefix == appconfig[PREFIX_VAR_NAME][2]
        name == IF (prefix \o <<"USER_CONFIG">>) \in DOMAIN environ
                THEN environ[prefix \o <<"USER_CONFIG">>]
                ELSE SpecifiedDefaults[USER_CONFIG_VAR_NAME][2]
    IN appconfig[USER_CONFIG_VAR_NAME] =
         IF name[1] = "/" \/ (CWD \o name) \in DOMAIN user_files
         THEN StrVal(name) ELSE StrVal(APP_PATH \o name)

\* the configuration part of the state the thread specifications start from,
\* as start-up leaves it before threadutil adds its default
ConfigStartedReached ==
  /\ StartupDone /\ defaults_dirs = {} /\ environ = EmptyDict /\ user_files = FixedFiles
  /\ appconfig = StartedConfig /\ modifier = MaxDepth
  /\ defaults_filepath = join(APP_PATH, DEFAULTS_FILENAME)

\* C17: whatever the interleaving of the threads, at most one ThreadPool is
\* constructed, every GlobalPool() call returns that pool, and the global
\* names it once it is set.
C17_GlobalPoolSingleton ==
  /\ Len(pools) <= 1
  /\ returned \subseteq {1}
  /\ returned # {} => _globalPool = 1 /\ Len(pools) = 1
  /\ _globalPool \in {0, Len(pools)}

\* two threads have each completed calls and one is inside GlobalPool()
\* again while the pool exists
C17_Witness ==
  /\ \A t \in Threads : tcalls[t] >= 1
  /\ \E t \in Threads : tpc[t] = "gp_release"
  /\ returned = {1}
  /\ Len(pools) = 1

\* a Wait call has completed; the items it was called for
WaitDone == last_wait.returned # "none"
PostedBefore == 1..last_wait.posted
WaitedItems == 1..Len(last_wait.got)
Failure(outcome) == outcome \in {"False", "ApplicationError"}

Holders(name) == {o \in holding : lockfiles[o].name = name}

\* C19: at most one LockFile object holds the lock of a name; Lock() on an
\* open object is always able to return, and it raises exactly when another
\* object holds the name, leaving that holder in place; a name nobody holds
\* (never locked, or unlocked again) is granted.
C19_LockFileMutex ==
  /\ \A name \in LockNames : Cardinality(Holders(name)) <= 1
  /\ \A o \in holding : IsOpen(o) /\ flock[lockfiles[o].name] = o
  /\ \A o \in LockObjects : (IsOpen(o) /\ o \notin in_with) => ENABLED Lock(o)
  /\ last_lock.obj # 0 =>
       /\ last_lock.raised = "IOError" <=> last_lock.holder \notin {0, last_lock.obj}
       /\ last_lock.raised = "IOError" => last_lock.obj \notin holding

\* object 2 holds "a" after object 1 unlocked it, and object 3 is refused
C19_Witness ==
  /\ last_lock = [obj |-> 3, raised |-> "IOError", holder |-> 2]
  /\ released["a"] = 1
  /\ Holders("a") = {2}
  /\ IsOpen(1) /\ lockfiles[1].name = "a"

\* the process has ended after the main function was called
ExitedAfterMain == run_pc = "exited" /\ main_calls = 1
\* bool(value) for the values of the model
TruthyReturn == result.type # "NoneType" /\ result.n # 0

ClaimedFileExists ==
  ClaimedPath[2] \in DOMAIN user_files \/ (CWD \o ClaimedPath[2]) \in DOMAIN user_files
ClaimedFile ==
  IF ClaimedPath[2] \in DOMAIN user_files THEN user_files[ClaimedPath[2]]
  ELSE user_files[CWD \o ClaimedPath[2]]

\* C21: when the file a user-config call resolves exists and does not parse,
\* the call raises the parse error and the mapping is what it was before the
\* call, USER_CONFIG included.
C21_InvalidFileLeavesMapping ==
  (UserConfigCall /\ ClaimedFileExists /\ ClaimedFile.kind = "invalid") =>
    /\ last.raised = "YAMLError"
    /\ appconfig = last.before

\* C22: when the file a user-config call resolves exists and is empty, the
\* call raises nothing and every key but USER_CONFIG is what it was before.
C22_EmptyFileNoOp ==
  (UserConfigCall /\ ClaimedFileExists /\ ClaimedFile.kind = "empty") =>
    /\ last.raised = "none"
    /\ \A k \in (DOMAIN last.before) \ {USER_CONFIG_VAR_NAME} :
         k \in DOMAIN appconfig /\ appconfig[k] = last.before[k]

\* the prefix import_defaults left, under which line 137 looked for the
\* variable <prefix>USER_CONFIG
LookupPrefix ==
  IF exists(defaults_filepath) /\ PREFIX_VAR_NAME \in DOMAIN defaults_source.names
  THEN defaults_source.names[PREFIX_VAR_NAME] ELSE StrVal(<<"PYAPP_">>)

\* C23: the prefix the environment stage of start-up reads its variables
\* under is the prefix under which the USER_CONFIG variable was looked up.
C23_SinglePrefix ==
  (StartupDone /\ last.op = "import_environment") =>
    last.before[PREFIX_VAR_NAME] = LookupPrefix

\* the process is on one of the paths that call Abort
AbortPath == exit_path \in {"Abort", "UnhandledException", "Signal"}

\* C24: a process that ends on an abort path ends with code 1 and with the
\* global pool, if there is one, shut down; and a process on an abort path
\* that has not ended yet is able to go on to its end.
C24_AbortShutsDownAndExits ==
  /\ (AbortPath /\ run_pc = "exited") =>
       /\ exit_code = <<1>>
       /\ _globalPool # 0 => pools[_globalPool] = "terminated"
  /\ (AbortPath /\ run_pc # "exited") => ENABLED (AbortAcquire \/ AbortShutdown)

\* the arguments without the two keys Run takes for itself
ArgsForMain == [k \in (DOMAIN run_args) \ {"debug", "user_config"} |-> run_args[k]]
\* Run was given a non-empty user_config, and the file it names
ReloadAsked == "user_config" \in DOMAIN run_args /\ run_args["user_config"] \notin {NoneVal, StrVal(<<>>)}

\* set_user_config_file raised in Run
ReloadRaised == ReloadAsked /\ last.op = "set_user_config_file" /\ last.raised # "none"

\* C25 as stated: a Run that was given a non-empty user_config and has ended
\* has reloaded the configuration and then called the main function exactly
\* once, with the arguments minus debug and user_config.
C25_MainOnceAsStated ==
  (run_pc = "exited" /\ ReloadAsked) =>
    /\ main_calls = 1
    /\ main_args = ArgsForMain
    /\ last.op = "set_user_config_file" /\ last.raised = "none"

\* C25: the main function is called at most once, with the arguments minus
\* debug and user_config, and when a non-empty user_config was given only
\* after set_user_config_file has returned for it without raising; a Run
\* that ended without a SIGINT has called the main function exactly when
\* the reload did not raise.
C25_MainAfterReload ==
  /\ main_calls <= 1
  /\ main_calls = 1 =>
       /\ main_args = ArgsForMain
       /\ ReloadAsked => /\ last.op = "set_user_config_file"
                         /\ last.arg = run_args["user_config"]
                         /\ last.raised = "none"
  /\ (run_pc = "exited" /\ exit_path # "Signal") => (main_calls = 1 <=> ~ReloadRaised)

C25_Witness ==
  /\ run_pc = "exited" /\ exit_path = "result"
  /\ ReloadAsked /\ "debug" \in DOMAIN run_args
  /\ main_calls = 1
  /\ last.op = "set_user_config_file" /\ last.raised = "none"

\* C26: the pool a call of GlobalPool() is about to return, tested or
\* constructed under the lock, has not been shut down: when the pool that
\* existed was shut down by ShutdownGlobalPool, the call makes a new one,
\* so that Post on the returned pool is accepted.
C26_GlobalPoolUsableAfterShutdown ==
  \A t \in Threads : tpc[t] = "gp_release" => pools[_globalPool] = "running"

\* the handlers of a list have different names
DistinctHandlers(mylog) ==
  \A i, j \in 1..Len(mylog) : mylog[i].name = mylog[j].name => i = j

\* C27: for every logger name, once a call of GetLogger has added a
\* handler the handler list of the logger stays the list that call built,
\* whatever logConfig later calls are given: no handler is in the list
\* twice, and a call on a logger that has handlers leaves them as they were.
C27_GetLoggerIdempotent ==
  /\ \A n \in LoggerNames :
       /\ handlers[n] = built[n]
       /\ DistinctHandlers(handlers[n])
  /\ (log_calls > 0 /\ last_log.before # <<>>) =>
       /\ handlers[last_log.name] = last_log.before
       /\ last_log.raised = "none"

\* a second call with a logConfig that would build other handlers
C27_Witness ==
  /\ log_calls >= 2
  /\ last_log.before # <<>>
  /\ \E i \in 1..Len(last_log.before) : last_log.before[i].name = "syslog"
  /\ CompleteConfig(last_log.logConfig).enableFile
  /\ ~CompleteConfig(last_log.logConfig).enableSyslog
  /\ handlers[last_log.name] = last_log.before

====
